---- MODULE Spec2Model ----
(***************************************************************************)
(* Model of src/strategies.py: the five scalping strategies and the        *)
(* trailing-stop latch of SafeStrategy.                                    *)
(*                                                                         *)
(* Numbers.  Prices, EMA and ATR are integers in price units.  The         *)
(* multipliers of the source are decimal fractions with one digit, so      *)
(* they are kept in tenths (stop_mult 1.0 is 10) and every offset and      *)
(* every comparison is carried out in tenths of a price unit: X10(p) is    *)
(* p in tenths.  An offset of 2.0 is the integer 20.                       *)
(*                                                                         *)
(* Snapshot.  A DataFrame is the record [len, now, close, volume]: len is  *)
(* len(df), now is df.index[-1] in minutes of the day, close and volume    *)
(* are the two columns, volume is <<>> when the frame has no volume        *)
(* column.  The frames given to SafeStrategy hold every row (len <=        *)
(* MaxBars); the frames given to the other strategies, whose fixed         *)
(* periods are 10 and 20 rows, hold len and the last row of close, the     *)
(* only things those strategies read.  data.get('ohlc_1m') returning None  *)
(* is <<>>, a frame df is <<df>>.                                          *)
(*                                                                         *)
(* Indicators.  calculate_ema and calculate_atr live in indicators.py,     *)
(* outside this file; decide only uses their last value, which is an       *)
(* input of each call (ema, atr): any finite value, whatever the frame     *)
(* and the period.  NaN indicator values are not modelled.                 *)
(*                                                                         *)
(* Comments.  A comment is the sequence of its parts; the strategy name    *)
(* and the formatted price and period are left out.                        *)
(*                                                                         *)
(* Calls.  The variables strategy .. first_result record the call in       *)
(* progress at the caller: a decide call fills them, Consume (the caller   *)
(* has acted on the result) clears them, RepeatSafe is the caller calling  *)
(* decide again with the same snapshot before moving on.                   *)
(***************************************************************************)
EXTENDS Integers, Sequences, FiniteSets

VARIABLES
    ema_period,          \* SafeStrategy.ema_period
    atr_period,          \* SafeStrategy.atr_period
    trailing_activated,  \* SafeStrategy.trailing_activated
    strategy,            \* the strategy whose decide ran last
    data,                \* the snapshot it was given
    ema,                 \* calculate_ema(...).iloc[-1] for that snapshot
    atr,                 \* calculate_atr(...).iloc[-1] for that snapshot
    entry_latch,         \* trailing_activated when that call began
    result,              \* what that call returned, or Raised
    repeated,            \* that call repeated the call before it (same instance, same inputs)
    first_result,        \* the result of the call it repeated
    activation_log       \* directions of the results that carried "trailing stop activated"

vars == << ema_period, atr_period, trailing_activated, strategy, data, ema, atr,
           entry_latch, result, repeated, first_result, activation_log >>

----------------------------------------------------------------------------
(* Bounds and input values *)

\* activation_log keeps at most this many entries
MaxLog == 2

\* rows of the longest frame given to SafeStrategy, and its longest period
MaxBars == 2

Periods == 1..MaxBars
Closes == {98, 100, 101}
NaN == -1
Volumes == {NaN, 0, 1, 3}
\* 08:00 and 16:00, the session bounds, and 16:01
Times == {480, 960, 961}
EMAs == {100}
ATRs == {0, 2, 5}

----------------------------------------------------------------------------
(* Constants of the source *)

stop_mult == 10
target_mult == 5
buffer_mult == 2
volume_mult == 15
breakeven_mult == 1
session_start == 480
session_end == 960

ModerateEma == 20
ModerateStop == 15
ModerateTarget == 10
AggressiveEma == 10
AggressiveStop == 20
AggressiveTarget == 15
MomentumEma == 20
MomentumFade == 15
MomentumStop == 10
MomentumTarget == 15
MeanRevEma == 20
MeanRevBand == 20
MeanRevStop == 10
MeanRevTarget == 20

----------------------------------------------------------------------------
(* Helpers *)

None == <<>>
Some(v) == <<v>>
X10(p) == 10 * p
Abs(x) == IF x < 0 THEN -x ELSE x
Min(a, b) == IF a < b THEN a ELSE b
Max(a, b) == IF a > b THEN a ELSE b
Last(s) == s[Len(s)]

Column(S, n) == [1..n -> S]

\* the frames with n rows, with and without a volume column
Frames(n) ==
    { [len |-> n, now |-> t, close |-> c, volume |-> v] :
        t \in Times, c \in Column(Closes, n),
        v \in (Column(Volumes, n) \cup {<<>>}) }

\* the frames a strategy with fixed period p is given: the columns it reads are
\* len(df) and the last close
PlainFrames(p) ==
    { [len |-> n, now |-> session_start, close |-> <<c>>, volume |-> <<>>] :
        n \in {p - 1, p}, c \in Closes }

Result(a, c, sl, tp) == [action |-> a, comment |-> c, sl_offset |-> sl, tp_offset |-> tp]

NoResult == Result("none", <<>>, None, None)
Raised == Result("raise", <<"IndexError">>, None, None)

HasText(r, t) == \E i \in 1..Len(r.comment) : r.comment[i] = t

----------------------------------------------------------------------------
(* SafeStrategy *)

in_session(t) == session_start <= t /\ t <= session_end

\* _hold with zero offsets in place of None
holdZeroOffsets(reason) == Result("hold", <<reason>>, Some(0), Some(0))

hold(reason) == Result("hold", <<reason>>, None, None)

RECURSIVE SumSeq(_)
SumSeq(s) == IF s = <<>> THEN 0 ELSE s[1] + SumSeq(Tail(s))

\* vol.rolling(n).mean().iloc[-1]: undefined (NaN) with fewer than n rows or a
\* NaN in the window, else the mean, kept as the window's sum and its size
RollingMean(vol, n) ==
    IF Len(vol) < n \/ \E i \in (Len(vol) - n + 1)..Len(vol) : vol[i] = NaN
    THEN [kind |-> "nan", sum |-> 0, n |-> n]
    ELSE [kind |-> "num", sum |-> SumSeq(SubSeq(vol, Len(vol) - n + 1, Len(vol))), n |-> n]

\* avg_vol = None if vol.empty else vol.rolling(atr_period).mean().iloc[-1]
AvgVol(vol, n) ==
    IF vol = <<>> THEN [kind |-> "none", sum |-> 0, n |-> n] ELSE RollingMean(vol, n)

\* Python truth of avg_vol: None and 0.0 are false, NaN is true
Truthy(avg) == avg.kind = "nan" \/ (avg.kind = "num" /\ avg.sum # 0)

\* the volume test with <= in place of <
BelowOrAtThreshold(v, avg) ==
    /\ avg.kind = "num"
    /\ v # NaN
    /\ X10(v) * avg.n <= avg.sum * volume_mult

\* v < avg * volume_mult; a comparison with NaN is false
BelowThreshold(v, avg) ==
    /\ avg.kind = "num"
    /\ v # NaN
    /\ X10(v) * avg.n < avg.sum * volume_mult

LowVolume(vol, n) == Truthy(AvgVol(vol, n)) /\ BelowThreshold(Last(vol), AvgVol(vol, n))

\* abs(price - ema) < buffer, buffer = atr * buffer_mult
WithinBuffer(price, e, a) == X10(Abs(price - e)) < a * buffer_mult

\* the filters with the volume filter ahead of the session filter
FirstRejectVolumeFirst(ep, ap, d, e, a) ==
    IF d = None \/ d[1].len < Max(ep, ap) THEN "insufficient data"
    ELSE IF LowVolume(d[1].volume, ap) THEN "low volume"
    ELSE IF ~in_session(d[1].now) THEN "outside trading session"
    ELSE IF WithinBuffer(Last(d[1].close), e, a) THEN "within buffer zone"
    ELSE "pass"

\* the filters in the order decide runs them; "pass" when none rejects
FirstReject(ep, ap, d, e, a) ==
    IF d = None \/ d[1].len < Max(ep, ap) THEN "insufficient data"
    ELSE IF ~in_session(d[1].now) THEN "outside trading session"
    ELSE IF LowVolume(d[1].volume, ap) THEN "low volume"
    ELSE IF WithinBuffer(Last(d[1].close), e, a) THEN "within buffer zone"
    ELSE "pass"

Direction(price, e) == IF price > e THEN "buy" ELSE "sell"

DirectionText(action) ==
    IF action = "buy" THEN "price above EMA + buffer" ELSE "price below EMA - buffer"

\* the activation test with the two directions' comparisons exchanged
ActivatesSwapped(latch, action, price, e, a) ==
    /\ ~latch
    /\ \/ action = "sell" /\ X10(price) > X10(e) + 2 * (a * buffer_mult)
       \/ action = "buy" /\ X10(price) < X10(e) - 2 * (a * buffer_mult)

Activates(latch, action, price, e, a) ==
    /\ ~latch
    /\ \/ action = "buy" /\ X10(price) > X10(e) + 2 * (a * buffer_mult)
       \/ action = "sell" /\ X10(price) < X10(e) - 2 * (a * buffer_mult)

\* self.trailing_activated = <activation>: the flag assigned the test's value
LatchAssigned(latch, activates) == activates

\* if <activation>: self.trailing_activated = True
Latch(latch, activates) == IF activates THEN TRUE ELSE latch

\* the tightening with the buy formula on both directions
TightenBuyFormula(latch, action, sl, close, a) ==
    IF ~latch THEN sl
    ELSE Min(sl, X10(close[Len(close)]) - (X10(close[Len(close) - 1]) + a * breakeven_mult))

\* the tightening applied whatever the latch
TightenAlways(latch, action, sl, close, a) ==
    IF Len(close) < 2 THEN sl
    ELSE IF action = "buy"
         THEN Min(sl, X10(close[Len(close)]) - (X10(close[Len(close) - 1]) + a * breakeven_mult))
         ELSE Min(sl, (X10(close[Len(close) - 1]) - a * breakeven_mult) - X10(close[Len(close)]))

\* the stop after the tightening step, given the latch at that step;
\* prev_close = close.iloc[-2]
Tighten(latch, action, sl, close, a) ==
    IF ~latch THEN sl
    ELSE LET price == close[Len(close)]
             prev_close == close[Len(close) - 1]
         IN  IF action = "buy"
             THEN Min(sl, X10(price) - (X10(prev_close) + a * breakeven_mult))
             ELSE Min(sl, (X10(prev_close) - a * breakeven_mult) - X10(price))

\* the trade branch tightening on the latch the call began with
SafeTradeEntryLatch(latch, df, e, a) ==
    LET price == Last(df.close)
        action == Direction(price, e)
        act == Activates(latch, action, price, e, a)
        after == Latch(latch, act)
        comment == IF act THEN <<DirectionText(action), "trailing stop activated">>
                   ELSE <<DirectionText(action)>>
    IN  IF latch /\ df.len < 2
        THEN [result |-> Raised, latch |-> after]
        ELSE [result |-> Result(action, comment,
                                Some(Tighten(latch, action, a * stop_mult, df.close, a)),
                                Some(a * target_mult)),
              latch |-> after]

\* the trade branch of decide (all filters passed): the result and the latch after it.
\* The latch is assigned before close.iloc[-2] is read, which raises IndexError
\* on a frame of one row.
SafeTrade(latch, df, e, a) ==
    LET price == Last(df.close)
        action == Direction(price, e)
        act == Activates(latch, action, price, e, a)
        after == Latch(latch, act)
        comment == IF act THEN <<DirectionText(action), "trailing stop activated">>
                   ELSE <<DirectionText(action)>>
    IN  IF after /\ df.len < 2
        THEN [result |-> Raised, latch |-> after]
        ELSE [result |-> Result(action, comment,
                                Some(Tighten(after, action, a * stop_mult, df.close, a)),
                                Some(a * target_mult)),
              latch |-> after]

SafeDecide(ep, ap, latch, d, e, a) ==
    LET reason == FirstReject(ep, ap, d, e, a)
    IN  IF reason # "pass"
        THEN [result |-> hold(reason), latch |-> latch]
        ELSE SafeTrade(latch, d[1], e, a)

----------------------------------------------------------------------------
(* The stateless strategies *)

TooShort(d, p) == d = None \/ d[1].len < p

ModerateDecide(d, e, a) ==
    IF TooShort(d, ModerateEma) THEN Result("hold", <<"insufficient data">>, None, None)
    ELSE LET price == Last(d[1].close)
         IN  IF price > e
             THEN Result("buy", <<"bullish trend detected">>,
                         Some(a * ModerateStop), Some(a * ModerateTarget))
             ELSE IF price < e
             THEN Result("sell", <<"bearish trend detected">>,
                         Some(a * ModerateStop), Some(a * ModerateTarget))
             ELSE Result("hold", <<"no clear trend">>, None, None)

AggressiveDecide(d, e, a) ==
    IF TooShort(d, AggressiveEma) THEN Result("hold", <<"insufficient data">>, None, None)
    ELSE LET price == Last(d[1].close)
         IN  IF price > e
             THEN Result("buy", <<"going long aggressively">>,
                         Some(a * AggressiveStop), Some(a * AggressiveTarget))
             ELSE IF price < e
             THEN Result("sell", <<"going short aggressively">>,
                         Some(a * AggressiveStop), Some(a * AggressiveTarget))
             ELSE Result("hold", <<"awaiting breakout">>, None, None)

MomentumDecide(d, e, a) ==
    IF TooShort(d, MomentumEma) THEN Result("hold", <<"insufficient data">>, None, None)
    ELSE LET diff == Last(d[1].close) - e
         IN  IF X10(diff) > a * MomentumFade
             THEN Result("sell", <<"fading overextension">>,
                         Some(a * MomentumStop), Some(a * MomentumTarget))
             ELSE IF X10(diff) < -(a * MomentumFade)
             THEN Result("buy", <<"fading downside spike">>,
                         Some(a * MomentumStop), Some(a * MomentumTarget))
             ELSE Result("hold", <<"no fade opportunity">>, None, None)

MeanReversionDecide(d, e, a) ==
    IF TooShort(d, MeanRevEma) THEN Result("hold", <<"insufficient data">>, None, None)
    ELSE LET price == Last(d[1].close)
             upper == X10(e) + a * MeanRevBand
             lower == X10(e) - a * MeanRevBand
         IN  IF X10(price) > upper
             THEN Result("sell", <<"price above upper band">>,
                         Some(a * MeanRevStop), Some(a * MeanRevTarget))
             ELSE IF X10(price) < lower
             THEN Result("buy", <<"price below lower band">>,
                         Some(a * MeanRevStop), Some(a * MeanRevTarget))
             ELSE Result("hold", <<"within bands">>, None, None)

----------------------------------------------------------------------------
(* State machine *)

\* what a caller may pass to SafeStrategy.decide: no frame, or a frame of 0..MaxBars rows
SafeData == {None} \cup { <<df>> : df \in UNION { Frames(n) : n \in 0..MaxBars } }

PlainData(p) == {None} \cup { <<df>> : df \in PlainFrames(p) }

Init ==
    /\ ema_period \in Periods
    /\ atr_period \in Periods
    /\ trailing_activated = FALSE
    /\ strategy = "none"
    /\ data = None
    /\ ema = 0
    /\ atr = 0
    /\ entry_latch = FALSE
    /\ result = NoResult
    /\ repeated = FALSE
    /\ first_result = NoResult
    /\ activation_log = <<>>

Idle == strategy = "none"

\* SafeStrategy.decide(data) with the indicators returning e and a
CallSafe(d, e, a, again) ==
    LET out == SafeDecide(ema_period, atr_period, trailing_activated, d, e, a)
    IN  /\ trailing_activated' = out.latch
        /\ result' = out.result
        /\ entry_latch' = trailing_activated
        /\ strategy' = "safe"
        /\ data' = d
        /\ ema' = e
        /\ atr' = a
        /\ repeated' = again
        /\ first_result' = IF again THEN result ELSE NoResult
        /\ activation_log' =
               IF HasText(out.result, "trailing stop activated")
                  /\ Len(activation_log) < MaxLog
               THEN Append(activation_log, out.result.action)
               ELSE activation_log
        /\ UNCHANGED << ema_period, atr_period >>

\* one call of SafeStrategy.decide on a new snapshot
DecideSafe ==
    /\ Idle
    /\ \E d \in SafeData, e \in EMAs, a \in ATRs : CallSafe(d, e, a, FALSE)

\* the same call once more: same instance, same snapshot, same indicator values
RepeatSafe ==
    /\ strategy = "safe"
    /\ CallSafe(data, ema, atr, TRUE)

\* the caller is done with the last result
Consume ==
    /\ ~Idle
    /\ strategy' = "none"
    /\ data' = None
    /\ ema' = 0
    /\ atr' = 0
    /\ entry_latch' = trailing_activated
    /\ result' = NoResult
    /\ repeated' = FALSE
    /\ first_result' = NoResult
    /\ UNCHANGED << ema_period, atr_period, trailing_activated, activation_log >>

\* one call of a stateless strategy: only the record of the last call changes
Stateless(name, d, e, a, r) ==
    /\ strategy' = name
    /\ data' = d
    /\ ema' = e
    /\ atr' = a
    /\ result' = r
    /\ entry_latch' = trailing_activated
    /\ repeated' = FALSE
    /\ first_result' = NoResult
    /\ UNCHANGED << ema_period, atr_period, trailing_activated, activation_log >>

DecideModerate ==
    /\ Idle
    /\ \E d \in PlainData(ModerateEma), e \in EMAs, a \in ATRs :
           Stateless("moderate", d, e, a, ModerateDecide(d, e, a))

DecideAggressive ==
    /\ Idle
    /\ \E d \in PlainData(AggressiveEma), e \in EMAs, a \in ATRs :
           Stateless("aggressive", d, e, a, AggressiveDecide(d, e, a))

DecideMomentum ==
    /\ Idle
    /\ \E d \in PlainData(MomentumEma), e \in EMAs, a \in ATRs :
           Stateless("momentum", d, e, a, MomentumDecide(d, e, a))

DecideMeanReversion ==
    /\ Idle
    /\ \E d \in PlainData(MeanRevEma), e \in EMAs, a \in ATRs :
           Stateless("mean_reversion", d, e, a, MeanReversionDecide(d, e, a))

Next ==
    \/ DecideSafe
    \/ RepeatSafe
    \/ Consume
    \/ DecideModerate
    \/ DecideAggressive
    \/ DecideMomentum
    \/ DecideMeanReversion

Spec == Init /\ [][Next]_vars

----------------------------------------------------------------------------
(* Properties *)

SafeCall == strategy = "safe"
Returned == result.action \in {"buy", "sell", "hold"}
Trade == result.action \in {"buy", "sell"}
ActivatedText == HasText(result, "trailing stop activated")
Frame == data[1]
Price == Last(Frame.close)
PrevClose == Frame.close[Len(Frame.close) - 1]

\* the four filters, each on its own
Insufficient == data = None \/ Frame.len < Max(ema_period, atr_period)
OutOfSession == ~(session_start <= Frame.now /\ Frame.now <= session_end)
VolumeWindow == SubSeq(Frame.volume, Frame.len - atr_period + 1, Frame.len)
AverageDefined == Frame.volume # <<>> /\ \A i \in 1..Len(VolumeWindow) : VolumeWindow[i] # NaN
\* latest < average * volume_mult, both sides multiplied by 10 * atr_period
LatestBelow == 10 * Last(Frame.volume) * atr_period < SumSeq(VolumeWindow) * volume_mult
VolumeLow == AverageDefined /\ SumSeq(VolumeWindow) # 0 /\ LatestBelow
InBuffer == 10 * Abs(Price - ema) < atr * buffer_mult

ExpectedReason ==
    IF Insufficient THEN "insufficient data"
    ELSE IF OutOfSession THEN "outside trading session"
    ELSE IF VolumeLow THEN "low volume"
    ELSE IF InBuffer THEN "within buffer zone"
    ELSE "pass"

\* price > EMA + 2*buffer, price < EMA - 2*buffer (in tenths)
FarAbove == 10 * Price > 10 * ema + 2 * atr * buffer_mult
FarBelow == 10 * Price < 10 * ema - 2 * atr * buffer_mult

\* C1: once trailing_activated is true it is true after every later call: no step
\* takes it from true to false.
C1_LatchNeverResets == [][trailing_activated => trailing_activated']_vars

\* a sell returned by a call that began with the latch set by an earlier buy
C1_Witness ==
    /\ SafeCall /\ entry_latch /\ trailing_activated
    /\ activation_log = <<"buy">>
    /\ result.action = "sell"

\* C2: for a result of any of the five strategies, action is hold iff both
\* offsets are null, and buy or sell iff both are non-null.
C2_HoldIffNoOffsets ==
    Returned =>
        /\ (result.action = "hold") <=> (result.sl_offset = None /\ result.tp_offset = None)
        /\ Trade <=> (result.sl_offset # None /\ result.tp_offset # None)

C2_Witness ==
    /\ strategy = "mean_reversion"
    /\ result.action = "buy"
    /\ result.sl_offset # None /\ result.tp_offset # None

C5_Offsets ==
    (SafeCall /\ Trade) =>
        /\ result.tp_offset = <<atr * target_mult>>
        /\ result.sl_offset =
              IF ~trailing_activated THEN <<atr * stop_mult>>
              ELSE IF result.action = "buy"
                   THEN <<Min(atr * stop_mult, 10 * Price - (10 * PrevClose + atr))>>
                   ELSE <<Min(atr * stop_mult, (10 * PrevClose - atr) - 10 * Price)>>

\* a sell tightened under a latch that a buy activated
C5_Witness ==
    /\ SafeCall /\ result.action = "sell"
    /\ activation_log = <<"buy">>
    /\ result.sl_offset # <<atr * stop_mult>>

\* C6: "low volume" is returned only when there is volume data, the rolling
\* average over atr_period is defined and non-zero, and the latest volume is
\* strictly below average * volume_mult; never on an empty series, an undefined
\* or zero average, or a latest volume equal to average * volume_mult.
C6_LowVolumeOnlyBelow ==
    (SafeCall /\ HasText(result, "low volume")) =>
        /\ Frame.volume # <<>>
        /\ AverageDefined
        /\ SumSeq(VolumeWindow) # 0
        /\ LatestBelow
        /\ 10 * Last(Frame.volume) * atr_period # SumSeq(VolumeWindow) * volume_mult

C6_Witness ==
    /\ SafeCall /\ HasText(result, "low volume")
    /\ atr_period = 2

\* the scenario of C7: latch false at entry, a frame of at least two rows that
\* passes the data, session and volume filters, EMA 100, ATR 2, price 101
C7_Scenario ==
    /\ SafeCall /\ ~entry_latch
    /\ ~Insufficient /\ Frame.len >= 2
    /\ ~OutOfSession /\ ~VolumeLow
    /\ ema = 100 /\ atr = 2 /\ Price = 101

\* C7 as stated: in the scenario decide returns buy with sl_offset 2.0 and
\* tp_offset 1.0 whatever the second-to-last close, the latch becomes true and
\* the comment carries "trailing stop activated".
C7_AsStated ==
    C7_Scenario =>
        /\ result.action = "buy"
        /\ result.sl_offset = <<20>>
        /\ result.tp_offset = <<10>>
        /\ trailing_activated
        /\ ActivatedText

\* C7 amended: as stated, but sl_offset = min(2.0, 101 - (prev_close + 0.2)),
\* which is 2.0 only for prev_close <= 98.8.
C7_Amended ==
    C7_Scenario =>
        /\ result.action = "buy"
        /\ result.sl_offset = <<Min(20, 10 * (101 - PrevClose) - 2)>>
        /\ (result.sl_offset = <<20>>) <=> (10 * PrevClose <= 988)
        /\ result.tp_offset = <<10>>
        /\ trailing_activated
        /\ ActivatedText

C7_Witness == C7_Scenario /\ PrevClose = 100 /\ result.sl_offset = <<8>>

\* C8: for a buy or sell of SafeStrategy with ATR >= 0, tp_offset >= 0, and
\* sl_offset < 0 only if the latch is true at the end of the call.
C8_NegativeStopOnlyTrailing ==
    (SafeCall /\ Trade /\ atr >= 0) =>
        /\ result.tp_offset[1] >= 0
        /\ (result.sl_offset[1] < 0) => trailing_activated

C8_Witness == SafeCall /\ Trade /\ result.sl_offset[1] < 0 /\ trailing_activated

C10_RepeatAgrees ==
    repeated =>
        /\ result.action = first_result.action
        /\ result.sl_offset = first_result.sl_offset
        /\ result.tp_offset = first_result.tp_offset
        /\ trailing_activated = entry_latch

\* the first of the two calls activated the latch
C10_Witness ==
    /\ repeated /\ Trade
    /\ HasText(first_result, "trailing stop activated")
    /\ result.sl_offset # <<atr * stop_mult>>

====
